---- MODULE Spec2Model ----
(***************************************************************************)
(* Workout trainer of FitHub (client/src/components/WorkoutTrainer.tsx,    *)
(* the current component, lines 601-1260): the per-exercise repetition     *)
(* state machines, the cooldown gate, the dispatch loop onPoseResults and  *)
(* the session lifecycle, as a state machine.                              *)
(*                                                                         *)
(* Coordinates are MediaPipe's normalised image coordinates times 40      *)
(* (y grows downwards).  Time is performance.now() in milliseconds.        *)
(***************************************************************************)
EXTENDS Integers, Sequences, FiniteSets, TLC

\* ------------------------------------------------------------------ bounds
\* Session time the clock may advance past a whole second while frames are
\* being classified, and the clock's and the counters' caps.
MaxElapsed == 600
MaxNow == 3600
MaxTimer == 2
MaxIntervals == 1
\* Frames of one session classified between a render and the run of its
\* effects.
MaxStaleFrames == 1

\* ------------------------------------------------------ program constants
TickMs == 1000
CountdownFrom == 3
DefaultCooldown == 350

\* ---------------------------------------------------------------- geometry
Abs(n) == IF n < 0 THEN 0 - n ELSE n
Min2(a, b) == IF a < b THEN a ELSE b
Max2(a, b) == IF a > b THEN a ELSE b

\* tan((k - 1/2) degrees) * 10^4 for k = 1..90: the half-degree boundaries
\* used to round Math.atan2 to the nearest degree in integer arithmetic.
TanHalf ==
  << 87, 262, 437, 612, 787, 963, 1139, 1317, 1495, 1673,
     1853, 2035, 2217, 2401, 2586, 2773, 2962, 3153, 3346, 3541,
     3739, 3939, 4142, 4348, 4557, 4770, 4986, 5206, 5430, 5658,
     5890, 6128, 6371, 6619, 6873, 7133, 7400, 7673, 7954, 8243,
     8541, 8847, 9163, 9490, 9827, 10176, 10538, 10913, 11303, 11708,
     12131, 12572, 13032, 13514, 14019, 14550, 15108, 15697, 16319, 16977,
     17675, 18418, 19210, 20057, 20965, 21943, 22998, 24142, 25386, 26746,
     28239, 29887, 31716, 33759, 36059, 38667, 41653, 45107, 49152, 53955,
     59758, 66912, 75958, 87769, 103854, 127062, 163499, 229038, 381885,
     1145887 >>

\* atan2(y, x) in degrees for x >= 0, y >= 0, not both 0: the number of
\* half-degree boundaries below the slope y / x, so 0..90.
AtanQuadrant(y, x) ==
  Cardinality({k \in 1..90 : y * 10000 > x * TanHalf[k]})

\* Math.atan2(y, x) * 180 / PI, rounded to the nearest degree: -179..180,
\* and 0 for the zero vector.
Atan2Deg(y, x) ==
  IF x = 0 /\ y = 0 THEN 0
  ELSE IF y >= 0
       THEN (IF x >= 0 THEN AtanQuadrant(y, x)
                       ELSE 180 - AtanQuadrant(y, 0 - x))
       ELSE (IF x >= 0 THEN 0 - AtanQuadrant(0 - y, x)
                       ELSE AtanQuadrant(0 - y, 0 - x) - 180)

\* The angle of calculateAngle before it is folded: 0..359.
unfoldedAngle(a, b, c) ==
  Abs(Atan2Deg(c[2] - b[2], c[1] - b[1]) - Atan2Deg(a[2] - b[2], a[1] - b[1]))

\* calculateAngle(a, b, c): the angle at b between the rays to a and to c,
\* folded into 0..180.
calculateAngle(a, b, c) ==
  LET angle == unfoldedAngle(a, b, c)
  IN  IF angle > 180 THEN 360 - angle ELSE angle

\* land(pts, idx): the landmark's position, the origin when it is missing.
land(pts, idx) == IF idx \in DOMAIN pts THEN pts[idx] ELSE <<0, 0>>

\* ------------------------------------------------------- landmark frames
\* MediaPipe pose landmark indices read by the processors.
L_SHOULDER == 11
R_SHOULDER == 12
L_ELBOW == 13
R_ELBOW == 14
L_WRIST == 15
R_WRIST == 16
L_HIP == 23
R_HIP == 24
L_KNEE == 25
R_KNEE == 26
L_ANKLE == 27
R_ANKLE == 28

ArmIdx == {L_SHOULDER, R_SHOULDER, L_ELBOW, R_ELBOW, L_WRIST, R_WRIST}
LegIdx == {L_HIP, R_HIP, L_KNEE, R_KNEE, L_ANKLE, R_ANKLE}

Plus(p, v) == <<p[1] + v[1], p[2] + v[2]>>

\* One side of the body standing upright with the arm hanging.
BaseSide == [s |-> <<20, 10>>, e |-> <<20, 18>>, w |-> <<20, 26>>,
             h |-> <<20, 22>>, k |-> <<20, 30>>, a |-> <<20, 38>>]

\* results.poseLandmarks built from a left and a right side.
Landmarks(L, R) ==
  (L_SHOULDER :> L.s) @@ (R_SHOULDER :> R.s) @@ (L_ELBOW :> L.e)
  @@ (R_ELBOW :> R.e) @@ (L_WRIST :> L.w) @@ (R_WRIST :> R.w)
  @@ (L_HIP :> L.h) @@ (R_HIP :> R.h) @@ (L_KNEE :> L.k)
  @@ (R_KNEE :> R.k) @@ (L_ANKLE :> L.a) @@ (R_ANKLE :> R.a)

\* The forearm turned about the elbow: wrist = elbow + v.
ArmSide(v) == [BaseSide EXCEPT !.w = Plus(BaseSide.e, v)]
\* The same with the legs swung back, so the body line is bent: the
\* shoulder-hip-ankle angle is 210 degrees before calculateAngle folds it.
ArmBentSide(v) == [ArmSide(v) EXCEPT !.a = <<13, 34>>]
\* The straight or bent arm raised sideways: elbow = shoulder + u.
RaiseSide(u, f) == [BaseSide EXCEPT !.e = Plus(BaseSide.s, u),
                                    !.w = Plus(Plus(BaseSide.s, u), f)]
\* The thigh turned about the hip: knee = hip + v.
HipSide(v) == [BaseSide EXCEPT !.k = Plus(BaseSide.h, v),
                               !.a = Plus(Plus(BaseSide.h, v), <<0, 8>>)]
\* The shin turned about the knee: ankle = knee + v.
KneeSide(v) == [BaseSide EXCEPT !.a = Plus(BaseSide.k, v)]
\* The arms overhead with the wrists dy below the shoulders.
PullSide(dy) == [BaseSide EXCEPT !.e = <<24, 10>>,
                                 !.w = <<20, 10 + dy>>]

\* The values the processors compute from the landmarks with land and
\* calculateAngle; they are computed once, when the frame is built.
Geometry(pts) ==
  [elbow |-> Min2(calculateAngle(land(pts, L_SHOULDER), land(pts, L_ELBOW),
                                 land(pts, L_WRIST)),
                  calculateAngle(land(pts, R_SHOULDER), land(pts, R_ELBOW),
                                 land(pts, R_WRIST))),
   leftKnee |-> calculateAngle(land(pts, L_HIP), land(pts, L_KNEE),
                               land(pts, L_ANKLE)),
   rightKnee |-> calculateAngle(land(pts, R_HIP), land(pts, R_KNEE),
                                land(pts, R_ANKLE)),
   leftHip |-> calculateAngle(land(pts, L_SHOULDER), land(pts, L_HIP),
                              land(pts, L_KNEE)),
   rightHip |-> calculateAngle(land(pts, R_SHOULDER), land(pts, R_HIP),
                               land(pts, R_KNEE)),
   body |-> calculateAngle(land(pts, R_SHOULDER), land(pts, R_HIP),
                           land(pts, R_ANKLE)),
   shoulder |-> Max2(calculateAngle(land(pts, L_HIP), land(pts, L_SHOULDER),
                                    land(pts, L_ELBOW)),
                     calculateAngle(land(pts, R_HIP), land(pts, R_SHOULDER),
                                    land(pts, R_ELBOW))),
   wrist_y |-> Min2(land(pts, L_WRIST)[2], land(pts, R_WRIST)[2]),
   shoulder_y |-> Min2(land(pts, L_SHOULDER)[2], land(pts, R_SHOULDER)[2])]

\* results with poseLandmarks = pts.
Detected(pts) ==
  [detected |-> TRUE, poseLandmarks |-> [pts |-> pts, geo |-> Geometry(pts)]]
Sym(side) == Detected(Landmarks(side, side))
Restrict(f, S) == [i \in (DOMAIN f) \cap S |-> f[i]]

ElbowVecs == {<<2, 11>>, <<4, 11>>, <<7, 10>>, <<6, 5>>, <<11, 3>>,
              <<3, -3>>, <<7, -10>>}
BentVecs == {<<2, 11>>, <<11, 3>>, <<3, -3>>}
HipVecs == {<<2, 11>>, <<5, 10>>, <<7, 10>>, <<7, 4>>, <<5, 2>>,
            <<10, 3>>, <<3, 0>>}
KneeVecs == {<<3, 9>>, <<5, 6>>, <<13, 6>>, <<11, 3>>, <<3, 0>>}
PullOffsets == {8, 0, -1, -2, -5}

\* A frame without pose landmarks.
NoPoints == [i \in {} |-> <<0, 0>>]
NoDetection ==
  [detected |-> FALSE,
   poseLandmarks |-> [pts |-> NoPoints, geo |-> Geometry(NoPoints)]]

\* The frames the pose source delivers.
Frames ==
  {NoDetection}
  \cup {Sym(ArmSide(v)) : v \in ElbowVecs}
  \cup {Sym(ArmBentSide(v)) : v \in BentVecs}
  \cup {Sym(RaiseSide(u, u)) : u \in {<<4, 11>>, <<6, 5>>, <<11, 4>>, <<3, 0>>}}
  \cup {Sym(RaiseSide(<<11, 4>>, <<-3, 6>>)), Sym(RaiseSide(<<4, 11>>, <<-6, 2>>))}
  \cup {Sym(HipSide(v)) : v \in HipVecs}
  \cup {Sym(KneeSide(v)) : v \in KneeVecs}
  \cup {Detected(Landmarks(KneeSide(<<3, 9>>), KneeSide(<<11, 3>>)))}
  \cup {Sym(PullSide(dy)) : dy \in PullOffsets}
  \cup {Detected(Restrict(Landmarks(BaseSide, BaseSide), S)) :
          S \in {{}, ArmIdx, LegIdx}}

\* --------------------------------------------------------- session state
null == "null"
DynamicExercises == {"bicep_curl", "squats", "pushups", "lunges",
                     "overhead_press", "lateral_raises", "pullups",
                     "glute_bridges", "crunches"}
\* The ids of the exercise catalog.
exercises == DynamicExercises \cup {"plank"}

\* FormFlags: every field is optional, so it is unset, true or false.
NoFlags == [isDeepEnough |-> "unset", isFullyUp |-> "unset",
            isBackStraight |-> "unset"]
Truthy(v) == v = "true"

\* The zero session state written by resetWorkout and on selection.
base == [reps |-> 0, stage |-> "ready", goodReps |-> 0, feedback |-> <<>>,
         formFlags |-> NoFlags, timer |-> 0, isTimerRunning |-> FALSE]

\* Variants of the gate that the claims about it must tell from tryCount:
\* one counts a good repetition without counting the repetition, one has
\* no cooldown, one accepts a gap equal to the cooldown.
Rejected(next, last) ==
  [next |-> next, lastRepAt |-> last, prevFlags |-> next.formFlags,
   fresh |-> FALSE, tried |-> TRUE]
Accepted(next, now, addReps, addGood) ==
  LET good == Truthy(next.formFlags.isDeepEnough)
              /\ Truthy(next.formFlags.isFullyUp)
  IN  [next |-> [next EXCEPT
                   !.reps = @ + addReps,
                   !.goodReps = IF good THEN @ + addGood ELSE @,
                   !.feedback = IF good THEN <<"Good form!">> ELSE @,
                   !.formFlags = NoFlags],
       lastRepAt |-> now, prevFlags |-> next.formFlags, fresh |-> TRUE,
       tried |-> TRUE]
tryCountGoodOnly(next, now, cooldownMs, last) ==
  IF now - last > cooldownMs THEN Accepted(next, now, 0, 1)
  ELSE Rejected(next, last)
tryCountNoCooldown(next, now, cooldownMs, last) == Accepted(next, now, 1, 1)
tryCountInclusive(next, now, cooldownMs, last) ==
  IF now - last >= cooldownMs THEN Accepted(next, now, 1, 1)
  ELSE Rejected(next, last)
\* One that accepts without recording the time of the acceptance.
tryCountNoStamp(next, now, cooldownMs, last) ==
  IF now - last > cooldownMs
  THEN [Accepted(next, now, 1, 1) EXCEPT !.lastRepAt = last]
  ELSE Rejected(next, last)

\* One that counts an accepted candidate twice.
tryCountDouble(next, now, cooldownMs, last) ==
  IF now - last > cooldownMs THEN Accepted(next, now, 2, 1)
  ELSE Rejected(next, last)

\* ----------------------------------------------------------- cooldown gate
\* tryCount(next, now, cooldownMs) with lastRepAtRef.current = last.
\* Result: the mutated next, the new lastRepAtRef.current, prevFlags, the
\* content of the formFlags object next held on entry (the object is shared
\* with the caller's prev by the shallow copy { ...prev }), and fresh,
\* whether next.formFlags was replaced by a new empty object; tried tells
\* that the gate was reached.
tryCount(next, now, cooldownMs, last) ==
  IF now - last > cooldownMs
  THEN LET good == Truthy(next.formFlags.isDeepEnough)
                   /\ Truthy(next.formFlags.isFullyUp)
       IN  [next |-> [next EXCEPT
                        !.reps = @ + 1,
                        !.goodReps = IF good THEN @ + 1 ELSE @,
                        !.feedback = IF good THEN <<"Good form!">> ELSE @,
                        !.formFlags = NoFlags],
            lastRepAt |-> now,
            prevFlags |-> next.formFlags, fresh |-> TRUE, tried |-> TRUE]
  ELSE [next |-> next, lastRepAt |-> last, prevFlags |-> next.formFlags,
        fresh |-> FALSE, tried |-> TRUE]

\* A processor's result when it does not reach tryCount.
Plain(next, last) ==
  [next |-> next, lastRepAt |-> last, prevFlags |-> next.formFlags,
   fresh |-> FALSE, tried |-> FALSE]

\* ---------------------------------------------------- exercise processors
\* Each takes performance.now() as now and lastRepAtRef.current as last.
ElbowAngle(landmarks) == landmarks.geo.elbow
LeftKneeAngle(landmarks) == landmarks.geo.leftKnee
RightKneeAngle(landmarks) == landmarks.geo.rightKnee
LeftHipAngle(landmarks) == landmarks.geo.leftHip
RightHipAngle(landmarks) == landmarks.geo.rightHip
BodyAngle(landmarks) == landmarks.geo.body
ShoulderAngle(landmarks) == landmarks.geo.shoulder

\* Variants of nextBicepCurl: one takes a flexed angle as a candidate
\* whatever the stage, one takes every flexed angle as deep enough.
nextBicepCurlNoStage(landmarks, prev, now, last) ==
  LET elbowAngle == ElbowAngle(landmarks)
      n1 == IF elbowAngle > 150
            THEN [prev EXCEPT !.stage = "down", !.formFlags.isFullyUp = "true"]
            ELSE prev
  IN  IF elbowAngle < 50
      THEN LET n2 == [n1 EXCEPT !.stage = "up"]
               n3 == IF elbowAngle < 40
                     THEN [n2 EXCEPT !.formFlags.isDeepEnough = "true"]
                     ELSE [n2 EXCEPT !.feedback = <<"Curl a little higher.">>]
           IN  tryCount(n3, now, DefaultCooldown, last)
      ELSE Plain(n1, last)
nextBicepCurlLoose(landmarks, prev, now, last) ==
  LET elbowAngle == ElbowAngle(landmarks)
      n1 == IF elbowAngle > 150
            THEN [prev EXCEPT !.stage = "down", !.formFlags.isFullyUp = "true"]
            ELSE prev
  IN  IF prev.stage = "down" /\ elbowAngle < 50
      THEN LET n2 == [n1 EXCEPT !.stage = "up"]
               n3 == [n2 EXCEPT !.formFlags.isDeepEnough = "true"]
           IN  tryCount(n3, now, DefaultCooldown, last)
      ELSE Plain(n1, last)

nextBicepCurl(landmarks, prev, now, last) ==
  LET elbowAngle == ElbowAngle(landmarks)
      n1 == IF elbowAngle > 150
            THEN [prev EXCEPT !.stage = "down", !.formFlags.isFullyUp = "true"]
            ELSE prev
  IN  IF prev.stage = "down" /\ elbowAngle < 50
      THEN LET n2 == [n1 EXCEPT !.stage = "up"]
               n3 == IF elbowAngle < 40
                     THEN [n2 EXCEPT !.formFlags.isDeepEnough = "true"]
                     ELSE [n2 EXCEPT !.feedback = <<"Curl a little higher.">>]
           IN  tryCount(n3, now, DefaultCooldown, last)
      ELSE Plain(n1, last)

nextSquats(landmarks, prev, now, last) ==
  LET kneeAngle == Min2(LeftKneeAngle(landmarks), RightKneeAngle(landmarks))
      n1 == IF kneeAngle > 160
            THEN [prev EXCEPT !.stage = "up", !.formFlags.isFullyUp = "true"]
            ELSE prev
  IN  IF prev.stage = "up" /\ kneeAngle < 120
      THEN LET n2 == [n1 EXCEPT !.stage = "down"]
               n3 == IF kneeAngle < 100
                     THEN [n2 EXCEPT !.formFlags.isDeepEnough = "true"]
                     ELSE [n2 EXCEPT !.feedback = <<"Go a bit deeper.">>]
           IN  tryCount(n3, now, 450, last)
      ELSE Plain(n1, last)

\* A variant of nextPushups that takes a candidate in any stage.
nextPushupsNoStage(landmarks, prev, now, last) ==
  LET elbowAngle == ElbowAngle(landmarks)
      bodyAngle == BodyAngle(landmarks)
      n0 == IF bodyAngle < 155 \/ bodyAngle > 205
            THEN [prev EXCEPT !.feedback = <<"Keep your body straight!">>,
                              !.formFlags.isBackStraight = "false"]
            ELSE [prev EXCEPT !.formFlags.isBackStraight = "true"]
      n1 == IF elbowAngle > 150
            THEN [n0 EXCEPT !.stage = "up", !.formFlags.isFullyUp = "true"]
            ELSE n0
  IN  IF elbowAngle < 110
      THEN LET n2 == [n1 EXCEPT !.stage = "down"]
               n3 == IF elbowAngle < 100
                     THEN [n2 EXCEPT !.formFlags.isDeepEnough = "true"]
                     ELSE [n2 EXCEPT !.feedback = <<"Go a bit lower.">>]
           IN  IF Truthy(n3.formFlags.isBackStraight)
               THEN tryCount(n3, now, 450, last)
               ELSE Plain(n3, last)
      ELSE Plain(n1, last)
nextPushups(landmarks, prev, now, last) ==
  LET elbowAngle == ElbowAngle(landmarks)
      bodyAngle == BodyAngle(landmarks)
      n0 == IF bodyAngle < 155 \/ bodyAngle > 205
            THEN [prev EXCEPT !.feedback = <<"Keep your body straight!">>,
                              !.formFlags.isBackStraight = "false"]
            ELSE [prev EXCEPT !.formFlags.isBackStraight = "true"]
      n1 == IF elbowAngle > 150
            THEN [n0 EXCEPT !.stage = "up", !.formFlags.isFullyUp = "true"]
            ELSE n0
  IN  IF prev.stage = "up" /\ elbowAngle < 110
      THEN LET n2 == [n1 EXCEPT !.stage = "down"]
               n3 == IF elbowAngle < 100
                     THEN [n2 EXCEPT !.formFlags.isDeepEnough = "true"]
                     ELSE [n2 EXCEPT !.feedback = <<"Go a bit lower.">>]
           IN  IF Truthy(n3.formFlags.isBackStraight)
               THEN tryCount(n3, now, 450, last)
               ELSE Plain(n3, last)
      ELSE Plain(n1, last)

\* A variant of nextLunges that enters the flexed stage from ready.
nextLungesFromReady(landmarks, prev, now, last) ==
  LET frontKneeAngle == LeftKneeAngle(landmarks)
      backKneeAngle == RightKneeAngle(landmarks)
      n1 == IF frontKneeAngle > 150 /\ backKneeAngle > 150
            THEN [prev EXCEPT !.stage = "up", !.formFlags.isFullyUp = "true"]
            ELSE prev
  IN  IF prev.stage # "down" /\ (frontKneeAngle < 120 \/ backKneeAngle < 120)
      THEN LET n2 == [n1 EXCEPT !.stage = "down"]
               n3 == IF frontKneeAngle < 110 /\ backKneeAngle < 110
                     THEN [n2 EXCEPT !.formFlags.isDeepEnough = "true"]
                     ELSE [n2 EXCEPT !.feedback = <<"Lower your hips.">>]
           IN  tryCount(n3, now, 500, last)
      ELSE Plain(n1, last)

\* A lunge processor whose rest condition needs one straight knee only, so
\* that it overlaps the flexed condition.
nextLungesEitherKnee(landmarks, prev, now, last) ==
  LET frontKneeAngle == LeftKneeAngle(landmarks)
      backKneeAngle == RightKneeAngle(landmarks)
      n1 == IF frontKneeAngle > 150 \/ backKneeAngle > 150
            THEN [prev EXCEPT !.stage = "up", !.formFlags.isFullyUp = "true"]
            ELSE prev
  IN  IF prev.stage = "up" /\ (frontKneeAngle < 120 \/ backKneeAngle < 120)
      THEN LET n2 == [n1 EXCEPT !.stage = "down"]
               n3 == IF frontKneeAngle < 110 /\ backKneeAngle < 110
                     THEN [n2 EXCEPT !.formFlags.isDeepEnough = "true"]
                     ELSE [n2 EXCEPT !.feedback = <<"Lower your hips.">>]
           IN  tryCount(n3, now, 500, last)
      ELSE Plain(n1, last)

nextLunges(landmarks, prev, now, last) ==
  LET frontKneeAngle == LeftKneeAngle(landmarks)
      backKneeAngle == RightKneeAngle(landmarks)
      n1 == IF frontKneeAngle > 150 /\ backKneeAngle > 150
            THEN [prev EXCEPT !.stage = "up", !.formFlags.isFullyUp = "true"]
            ELSE prev
  IN  IF prev.stage = "up" /\ (frontKneeAngle < 120 \/ backKneeAngle < 120)
      THEN LET n2 == [n1 EXCEPT !.stage = "down"]
               n3 == IF frontKneeAngle < 110 /\ backKneeAngle < 110
                     THEN [n2 EXCEPT !.formFlags.isDeepEnough = "true"]
                     ELSE [n2 EXCEPT !.feedback = <<"Lower your hips.">>]
           IN  tryCount(n3, now, 500, last)
      ELSE Plain(n1, last)

\* A variant of nextOverheadPress that sets no flag at the rest threshold.
nextOverheadPressNoRestFlag(landmarks, prev, now, last) ==
  LET elbowAngle == ElbowAngle(landmarks)
      n1 == IF elbowAngle < 110 THEN [prev EXCEPT !.stage = "down"] ELSE prev
  IN  IF prev.stage = "down" /\ elbowAngle > 140
      THEN LET n2 == [n1 EXCEPT !.stage = "up"]
               n3 == IF elbowAngle > 150
                     THEN [n2 EXCEPT !.formFlags.isFullyUp = "true"]
                     ELSE [n2 EXCEPT !.feedback = <<"Extend arms fully!">>]
           IN  tryCount(n3, now, DefaultCooldown, last)
      ELSE Plain(n1, last)

nextOverheadPress(landmarks, prev, now, last) ==
  LET elbowAngle == ElbowAngle(landmarks)
      n1 == IF elbowAngle < 110
            THEN [prev EXCEPT !.stage = "down",
                              !.formFlags.isDeepEnough = "true"]
            ELSE prev
  IN  IF prev.stage = "down" /\ elbowAngle > 140
      THEN LET n2 == [n1 EXCEPT !.stage = "up"]
               n3 == IF elbowAngle > 150
                     THEN [n2 EXCEPT !.formFlags.isFullyUp = "true"]
                     ELSE [n2 EXCEPT !.feedback = <<"Extend arms fully!">>]
           IN  tryCount(n3, now, DefaultCooldown, last)
      ELSE Plain(n1, last)

nextLateralRaises(landmarks, prev, now, last) ==
  LET shoulderAngle == ShoulderAngle(landmarks)
      elbowAngle == ElbowAngle(landmarks)
      n0 == IF elbowAngle < 140
            THEN [prev EXCEPT !.feedback = <<"Keep arms straighter!">>]
            ELSE prev
      n1 == IF shoulderAngle < 40
            THEN [n0 EXCEPT !.stage = "down",
                            !.formFlags.isDeepEnough = "true"]
            ELSE n0
  IN  IF prev.stage = "down" /\ shoulderAngle > 60
      THEN LET n2 == [n1 EXCEPT !.stage = "up"]
               n3 == IF shoulderAngle > 75
                     THEN [n2 EXCEPT !.formFlags.isFullyUp = "true"]
                     ELSE [n2 EXCEPT !.feedback = <<"Raise a little higher.">>]
           IN  tryCount(n3, now, 500, last)
      ELSE Plain(n1, last)

\* 0.05 of the frame height, in grid units.
PullMargin == 2

nextPullups(landmarks, prev, now, last) ==
  LET wrist_y == landmarks.geo.wrist_y
      shoulder_y == landmarks.geo.shoulder_y
      n1 == IF wrist_y > shoulder_y
            THEN [prev EXCEPT !.stage = "down", !.formFlags.isFullyUp = "true"]
            ELSE prev
  IN  IF prev.stage = "down" /\ wrist_y < shoulder_y
      THEN LET n2 == [n1 EXCEPT !.stage = "up"]
               n3 == IF wrist_y < shoulder_y - PullMargin
                     THEN [n2 EXCEPT !.formFlags.isDeepEnough = "true"]
                     ELSE [n2 EXCEPT !.feedback = <<"Pull higher!">>]
           IN  tryCount(n3, now, 600, last)
      ELSE Plain(n1, last)

nextGluteBridges(landmarks, prev, now, last) ==
  LET hipAngle == Max2(LeftHipAngle(landmarks), RightHipAngle(landmarks))
      n1 == IF hipAngle < 140
            THEN [prev EXCEPT !.stage = "down",
                              !.formFlags.isDeepEnough = "true"]
            ELSE prev
  IN  IF prev.stage = "down" /\ hipAngle > 150
      THEN LET n2 == [n1 EXCEPT !.stage = "up"]
               n3 == IF hipAngle > 155
                     THEN [n2 EXCEPT !.formFlags.isFullyUp = "true"]
                     ELSE [n2 EXCEPT !.feedback = <<"Extend your hips fully.">>]
           IN  tryCount(n3, now, 500, last)
      ELSE Plain(n1, last)

nextCrunches(landmarks, prev, now, last) ==
  LET hipAngle == Min2(LeftHipAngle(landmarks), RightHipAngle(landmarks))
      n1 == IF hipAngle > 115
            THEN [prev EXCEPT !.stage = "down",
                              !.formFlags.isDeepEnough = "true"]
            ELSE prev
  IN  IF prev.stage = "down" /\ hipAngle < 110
      THEN LET n2 == [n1 EXCEPT !.stage = "up"]
               n3 == IF hipAngle < 105
                     THEN [n2 EXCEPT !.formFlags.isFullyUp = "true"]
                     ELSE [n2 EXCEPT !.feedback = <<"Crunch a little higher.">>]
           IN  tryCount(n3, now, 400, last)
      ELSE Plain(n1, last)

\* A variant of nextPlank that never stops the timer.
nextPlankSticky(landmarks, prev, now, last) ==
  LET bodyAngle == BodyAngle(landmarks)
  IN  IF bodyAngle > 155 /\ bodyAngle < 205
      THEN Plain([prev EXCEPT !.isTimerRunning = TRUE,
                              !.feedback = <<"Good form! Hold it.">>], last)
      ELSE Plain([prev EXCEPT !.feedback = <<"Straighten your back!">>], last)

\* A variant of nextPlank that counts a frame inside the band as a
\* repetition.
nextPlankCounting(landmarks, prev, now, last) ==
  LET bodyAngle == BodyAngle(landmarks)
  IN  IF bodyAngle > 155 /\ bodyAngle < 205
      THEN tryCount([prev EXCEPT !.isTimerRunning = TRUE,
                                 !.feedback = <<"Good form! Hold it.">>],
                    now, DefaultCooldown, last)
      ELSE Plain([prev EXCEPT !.isTimerRunning = FALSE,
                              !.feedback = <<"Straighten your back!">>], last)

\* A variant of nextPlank that records the hold in the stage.
nextPlankHolding(landmarks, prev, now, last) ==
  LET bodyAngle == BodyAngle(landmarks)
  IN  IF bodyAngle > 155 /\ bodyAngle < 205
      THEN Plain([prev EXCEPT !.isTimerRunning = TRUE, !.stage = "holding",
                              !.feedback = <<"Good form! Hold it.">>], last)
      ELSE Plain([prev EXCEPT !.isTimerRunning = FALSE,
                              !.feedback = <<"Straighten your back!">>], last)

nextPlank(landmarks, prev, now, last) ==
  LET bodyAngle == BodyAngle(landmarks)
  IN  IF bodyAngle > 155 /\ bodyAngle < 205
      THEN Plain([prev EXCEPT !.isTimerRunning = TRUE,
                              !.feedback = <<"Good form! Hold it.">>], last)
      ELSE Plain([prev EXCEPT !.isTimerRunning = FALSE,
                              !.feedback = <<"Straighten your back!">>], last)

\* A variant of the dispatch that runs the bicep curl processor for the ids
\* without an entry.
exerciseProcessorsDefault(id, landmarks, prev, now, last) ==
  IF id \in DynamicExercises \ {"bicep_curl"}
  THEN Plain(prev, last)
  ELSE IF id = "plank" THEN nextPlank(landmarks, prev, now, last)
  ELSE nextBicepCurl(landmarks, prev, now, last)

\* exerciseProcessors[id](landmarks, prev); the ids without an entry
\* (the empty selection) leave the copy of the state as it is.
exerciseProcessors(id, landmarks, prev, now, last) ==
  CASE id = "bicep_curl" -> nextBicepCurl(landmarks, prev, now, last)
    [] id = "squats" -> nextSquats(landmarks, prev, now, last)
    [] id = "pushups" -> nextPushups(landmarks, prev, now, last)
    [] id = "lunges" -> nextLunges(landmarks, prev, now, last)
    [] id = "overhead_press" -> nextOverheadPress(landmarks, prev, now, last)
    [] id = "lateral_raises" -> nextLateralRaises(landmarks, prev, now, last)
    [] id = "pullups" -> nextPullups(landmarks, prev, now, last)
    [] id = "glute_bridges" -> nextGluteBridges(landmarks, prev, now, last)
    [] id = "crunches" -> nextCrunches(landmarks, prev, now, last)
    [] id = "plank" -> nextPlank(landmarks, prev, now, last)
    [] OTHER -> Plain(prev, last)

\* ------------------------------------------------------------ the program
VARIABLES
  selectedExercise,     \* useState: the selected exercise id or null
  selectedExerciseRef,  \* its mirror read by onPoseResults
  isWorkoutActive,      \* useState
  isActiveRef,          \* its mirror read by onPoseResults
  countdown,            \* useState: 3, 2, 1, or 0 for null
  showSummary,          \* useState
  metrics,              \* useState: the published snapshot
  metricsRef,           \* the mirror read and written by onPoseResults
  flagsObj,             \* the formFlags objects the snapshots refer to
  lastRepAtRef,         \* time of the last accepted repetition, 0 at start
  starting,             \* startWorkout calls waiting in await startCamera()
  intervals,            \* live countdown intervals
  timerInterval,        \* whether the plank ticker interval is live
  renderPending,        \* setMetrics calls not yet rendered
  mirrorPending,        \* the committed render's effects not yet run
  staleFrames,          \* frames classified while effects were pending
  inFlight,             \* a pose result is due after the video was unmounted
  now,                  \* performance.now()
  ev,                   \* the last step taken (history, for the properties)
  scen                  \* progress of the scripted bicep-curl session

vars == <<selectedExercise, selectedExerciseRef, isWorkoutActive, isActiveRef,
          countdown, showSummary, metrics, metricsRef, flagsObj, lastRepAtRef,
          starting, intervals, timerInterval, renderPending, mirrorPending,
          staleFrames, inFlight, now, ev, scen>>

\* A snapshot in the state holds the identity of its formFlags object;
\* Val is the snapshot as the code reads it.
ObjIds == 1..3
baseAt(o) == [base EXCEPT !.formFlags = o]
Val(m) == [m EXCEPT !.formFlags = flagsObj[m.formFlags]]
NoEffects == [some |-> FALSE, m |-> baseAt(1), timerOn |-> FALSE]

\* Object identities renamed in order of first use by metricsRef, metrics
\* and the pending effect; objects no snapshot refers to are dropped.
Heap(mr, m, pend, heap) ==
  LET a == mr.formFlags
      b == m.formFlags
      c == IF pend.some THEN pend.m.formFlags ELSE a
      idB == IF b = a THEN 1 ELSE 2
      idC == IF c = a THEN 1 ELSE IF c = b THEN idB ELSE idB + 1
  IN  [mr |-> [mr EXCEPT !.formFlags = 1],
       m |-> [m EXCEPT !.formFlags = idB],
       pend |-> IF pend.some THEN [pend EXCEPT !.m.formFlags = idC]
                ELSE NoEffects,
       heap |-> [i \in ObjIds |->
                   IF i = 1 THEN heap[a]
                   ELSE IF i = idB THEN heap[b]
                   ELSE IF i = idC THEN heap[c]
                   ELSE NoFlags]]

\* Install snapshots mr (mirror), m (published) and the pending effects.
Install(mr, m, pend, heap) ==
  LET h == Heap(mr, m, pend, heap)
  IN  /\ metricsRef' = h.mr
      /\ metrics' = h.m
      /\ mirrorPending' = h.pend
      /\ flagsObj' = h.heap

\* A new object identity, outside ObjIds until Install renames it.
NewObj == 0
WithNew(heap, flags) == [i \in ObjIds \cup {NewObj} |->
                           IF i = NewObj THEN flags ELSE heap[i]]

\* The condition of the plank ticker effect.
TimerCond(active, exercise, m) ==
  active /\ exercise = "plank" /\ m.isTimerRunning

\* ------------------------------------------- thresholds of the processors
\* The stage a processor sets at its rest threshold and at its flexed one.
RestStage(id) == IF id \in {"squats", "pushups", "lunges"} THEN "up" ELSE "down"
FlexStage(id) == IF RestStage(id) = "up" THEN "down" ELSE "up"

\* The cooldown a processor passes to tryCount.
Cooldown(id) ==
  CASE id \in {"bicep_curl", "overhead_press"} -> DefaultCooldown
    [] id \in {"squats", "pushups"} -> 450
    [] id \in {"lunges", "lateral_raises", "glute_bridges"} -> 500
    [] id = "pullups" -> 600
    [] id = "crunches" -> 400

\* The relaxed rest condition of a processor (its first if).
RestCond(id, p) ==
  CASE id = "bicep_curl" -> ElbowAngle(p) > 150
    [] id = "squats" -> Min2(LeftKneeAngle(p), RightKneeAngle(p)) > 160
    [] id = "pushups" -> ElbowAngle(p) > 150
    [] id = "lunges" -> LeftKneeAngle(p) > 150 /\ RightKneeAngle(p) > 150
    [] id = "overhead_press" -> ElbowAngle(p) < 110
    [] id = "lateral_raises" -> ShoulderAngle(p) < 40
    [] id = "pullups" -> p.geo.wrist_y > p.geo.shoulder_y
    [] id = "glute_bridges" -> Max2(LeftHipAngle(p), RightHipAngle(p)) < 140
    [] id = "crunches" -> Min2(LeftHipAngle(p), RightHipAngle(p)) > 115

\* The relaxed flexed condition (the angle part of its second if).
FlexCond(id, p) ==
  CASE id = "bicep_curl" -> ElbowAngle(p) < 50
    [] id = "squats" -> Min2(LeftKneeAngle(p), RightKneeAngle(p)) < 120
    [] id = "pushups" -> ElbowAngle(p) < 110
    [] id = "lunges" -> LeftKneeAngle(p) < 120 \/ RightKneeAngle(p) < 120
    [] id = "overhead_press" -> ElbowAngle(p) > 140
    [] id = "lateral_raises" -> ShoulderAngle(p) > 60
    [] id = "pullups" -> p.geo.wrist_y < p.geo.shoulder_y
    [] id = "glute_bridges" -> Max2(LeftHipAngle(p), RightHipAngle(p)) > 150
    [] id = "crunches" -> Min2(LeftHipAngle(p), RightHipAngle(p)) < 110

\* The strict condition tested inside the second if.
StrictCond(id, p) ==
  CASE id = "bicep_curl" -> ElbowAngle(p) < 40
    [] id = "squats" -> Min2(LeftKneeAngle(p), RightKneeAngle(p)) < 100
    [] id = "pushups" -> ElbowAngle(p) < 100
    [] id = "lunges" -> LeftKneeAngle(p) < 110 /\ RightKneeAngle(p) < 110
    [] id = "overhead_press" -> ElbowAngle(p) > 150
    [] id = "lateral_raises" -> ShoulderAngle(p) > 75
    [] id = "pullups" -> p.geo.wrist_y < p.geo.shoulder_y - PullMargin
    [] id = "glute_bridges" -> Max2(LeftHipAngle(p), RightHipAngle(p)) > 155
    [] id = "crunches" -> Min2(LeftHipAngle(p), RightHipAngle(p)) < 105

\* The flag a processor sets at its strict threshold.
StrictFlag(id, flags) ==
  IF RestStage(id) = "up" \/ id \in {"bicep_curl", "pullups"}
  THEN flags.isDeepEnough ELSE flags.isFullyUp

\* The posture precondition of counting (push-ups only).
PostureOk(id, p) ==
  id = "pushups" => ~(BodyAngle(p) < 155 \/ BodyAngle(p) > 205)

\* The landmarks a processor reads.
Tracked(id) ==
  CASE id \in {"bicep_curl", "overhead_press"} -> ArmIdx
    [] id = "pushups" -> ArmIdx \cup {R_HIP, R_ANKLE}
    [] id \in {"squats", "lunges"} -> LegIdx
    [] id = "lateral_raises" -> ArmIdx \cup {L_HIP, R_HIP}
    [] id = "pullups" -> {L_WRIST, R_WRIST, L_SHOULDER, R_SHOULDER}
    [] id \in {"glute_bridges", "crunches"} ->
         {L_SHOULDER, R_SHOULDER, L_HIP, R_HIP, L_KNEE, R_KNEE}
    [] id = "plank" -> {R_SHOULDER, R_HIP, R_ANKLE}
    [] OTHER -> {}

\* Where a frame's tracked angle lies for a dynamic exercise.
Zone(id, p) ==
  IF id \notin DynamicExercises THEN "none"
  ELSE IF RestCond(id, p) THEN "rest"
  ELSE IF FlexCond(id, p)
       THEN (IF StrictCond(id, p) THEN "strict" ELSE "relaxed")
  ELSE "mid"

\* The advisory a processor writes for a candidate past the relaxed but not
\* the strict threshold.
RelaxedAdvice(id) ==
  CASE id = "bicep_curl" -> <<"Curl a little higher.">>
    [] id = "squats" -> <<"Go a bit deeper.">>
    [] id = "pushups" -> <<"Go a bit lower.">>
    [] id = "lunges" -> <<"Lower your hips.">>
    [] id = "overhead_press" -> <<"Extend arms fully!">>
    [] id = "lateral_raises" -> <<"Raise a little higher.">>
    [] id = "pullups" -> <<"Pull higher!">>
    [] id = "glute_bridges" -> <<"Extend your hips fully.">>
    [] id = "crunches" -> <<"Crunch a little higher.">>

\* The feedback after the posture test a processor starts with, fb being
\* the feedback of the state it copied.
PostureAdvice(id, p, fb) ==
  IF id = "pushups" /\ ~PostureOk(id, p) THEN <<"Keep your body straight!">>
  ELSE IF id = "lateral_raises" /\ ElbowAngle(p) < 140
       THEN <<"Keep arms straighter!">>
  ELSE fb

\* The feedback and the flags a candidate frame carries into tryCount.
GateFeedback(id, p, fb) ==
  IF StrictCond(id, p) THEN PostureAdvice(id, p, fb) ELSE RelaxedAdvice(id)
GateFlags(id, p, flags) ==
  LET f1 == IF id = "pushups"
            THEN [flags EXCEPT !.isBackStraight =
                    IF PostureOk(id, p) THEN "true" ELSE "false"]
            ELSE flags
  IN  IF ~StrictCond(id, p) THEN f1
      ELSE IF RestStage(id) = "up" \/ id \in {"bicep_curl", "pullups"}
           THEN [f1 EXCEPT !.isDeepEnough = "true"]
           ELSE [f1 EXCEPT !.isFullyUp = "true"]

\* The record of the last step: its operation (other for a clock step, a
\* render or a run of effects) and, for a frame, the branch onPoseResults
\* took (inactive, nopose, or classified), the zone of the angle and what
\* became of the candidate repetition: none (no candidate), accepted or
\* rejected by the gate, blocked before the gate.
\* The field open holds, for the exercises in Watched, what became of the
\* candidates since a frame last set the stage at the rest threshold; a
\* selection and a reset empty it.
Watched == {"overhead_press", "squats", "pushups"}
Gate(id, landmarks, prev, r) ==
  IF r.tried THEN (IF r.fresh THEN "accepted" ELSE "rejected")
  ELSE IF id \in DynamicExercises /\ prev.stage = RestStage(id)
          /\ FlexCond(id, landmarks)
       THEN "blocked" ELSE "none"
Ev(op) == [op |-> op, branch |-> "none", zone |-> "none", gate |-> "none",
           open |-> ev.open]
EvNew(op) == [Ev(op) EXCEPT !.open = {}]
FrameEv(results, id, prev, r) ==
  LET zone == Zone(id, results.poseLandmarks)
      gate == Gate(id, results.poseLandmarks, prev, r)
  IN  [op |-> "frame", branch |-> "classified", zone |-> zone, gate |-> gate,
       open |-> IF id \notin Watched THEN {}
                ELSE IF zone = "rest" /\ r.next.stage = RestStage(id) THEN {}
                ELSE IF gate # "none" THEN ev.open \cup {gate}
                ELSE ev.open]

\* The scripted session: from the zero session state, frames with elbow
\* angles 170, 160, 45, 170 and 35, the last one ScenGap ms after the
\* third.  scen.step counts the scripted frames classified so far, each on
\* the state the one before left; any other frame or operation, and a run
\* of effects that changes the mirror, ends the script.
ScenAngles == <<170, 160, 45, 170, 35>>
ScenGap == 400
ScenOff == [step |-> 0, t0 |-> 0]
ScenNext(sc, id, landmarks, current, t, last) ==
  LET a == ElbowAngle(landmarks)
  IN  IF id # "bicep_curl" THEN ScenOff
      ELSE IF a = ScenAngles[1] /\ current = base /\ last = 0
           THEN [step |-> 1, t0 |-> 0]
      ELSE IF sc.step \in {1, 3} /\ a = ScenAngles[sc.step + 1]
           THEN [sc EXCEPT !.step = @ + 1]
      ELSE IF sc.step = 2 /\ a = ScenAngles[3]
           THEN [step |-> 3, t0 |-> t]
      ELSE IF sc.step = 4 /\ a = ScenAngles[5] /\ t = sc.t0 + ScenGap
           THEN [sc EXCEPT !.step = 5]
      ELSE ScenOff

\* results?.poseLandmarks is present (and a variant that takes every
\* result as carrying landmarks).
PresentAlways(results) == TRUE
Present(results) == results.detected

\* The test of onPoseResults: isActiveRef.current && landmarks (and a
\* variant that does not look at the session).
ClassifiesInactive(active, results) == Present(results)
Classifies(active, results) == active /\ Present(results)

Init ==
  /\ selectedExercise = null
  /\ selectedExerciseRef = null
  /\ isWorkoutActive = FALSE
  /\ isActiveRef = FALSE
  /\ countdown = 0
  /\ showSummary = FALSE
  /\ metrics = baseAt(1)
  /\ metricsRef = baseAt(1)
  /\ flagsObj = [i \in ObjIds |-> NoFlags]
  /\ lastRepAtRef = 0
  /\ starting = 0
  /\ intervals = 0
  /\ timerInterval = FALSE
  /\ renderPending = FALSE
  /\ mirrorPending = NoEffects
  /\ staleFrames = 0
  /\ inFlight = FALSE
  /\ now = 0
  /\ ev = [op |-> "init", branch |-> "none", zone |-> "none",
           gate |-> "none", open |-> {}]
  /\ scen = ScenOff

\* ------------------------------------------------------------ the actions
\* onPoseResults(results): classify the frame when the session is active
\* and landmarks are present, otherwise only draw.  The summary view has no
\* video element, so there the camera's onFrame sends nothing more: only
\* the result of a send still in flight when endWorkout ran arrives.
onPoseResults(results) ==
  /\ showSummary => inFlight
  /\ inFlight' = FALSE
  /\ IF Classifies(isActiveRef, results)
     THEN LET current == Val(metricsRef)
              id == IF selectedExerciseRef = null THEN "" ELSE selectedExerciseRef
              r == exerciseProcessors(id, results.poseLandmarks, current, now, lastRepAtRef)
              o == metricsRef.formFlags
              heap == [WithNew(flagsObj, NoFlags) EXCEPT ![o] = r.prevFlags]
              next == [r.next EXCEPT !.formFlags = IF r.fresh THEN NewObj ELSE o]
          IN  /\ mirrorPending.some => staleFrames < MaxStaleFrames
              /\ Install(next, next, mirrorPending, heap)
              /\ lastRepAtRef' = r.lastRepAt
              /\ renderPending' = TRUE
              /\ staleFrames' = IF mirrorPending.some THEN staleFrames + 1
                                ELSE staleFrames
              /\ ev' = FrameEv(results, id, current, r)
              /\ scen' = ScenNext(scen, id, results.poseLandmarks, current,
                                  now, lastRepAtRef)
     ELSE /\ ev' = [Ev("frame") EXCEPT
                       !.branch = IF isActiveRef THEN "nopose" ELSE "inactive"]
          /\ scen' = ScenOff
          /\ UNCHANGED <<metrics, metricsRef, mirrorPending, flagsObj,
                         lastRepAtRef, renderPending, staleFrames>>
  /\ UNCHANGED <<selectedExercise, selectedExerciseRef, isWorkoutActive,
                 isActiveRef, countdown, showSummary, starting, intervals,
                 timerInterval, now>>

\* The plank ticker: setMetrics(prev => ({ ...prev, timer: prev.timer + 1 })).
\* (First, a variant whose tick ends the hold.)
TimerTickOnce ==
  /\ timerInterval
  /\ metrics.timer < MaxTimer
  /\ metrics' = [metrics EXCEPT !.timer = @ + 1, !.isTimerRunning = FALSE]
  /\ renderPending' = TRUE
  /\ ev' = Ev("tick")
  /\ UNCHANGED inFlight
  /\ UNCHANGED <<scen, selectedExercise, selectedExerciseRef, isWorkoutActive,
                 isActiveRef, countdown, showSummary, metricsRef, flagsObj,
                 lastRepAtRef, starting, intervals, timerInterval,
                 mirrorPending, staleFrames, now>>

TimerTick ==
  /\ timerInterval
  /\ metrics.timer < MaxTimer
  /\ metrics' = [metrics EXCEPT !.timer = @ + 1]
  /\ renderPending' = TRUE
  /\ ev' = Ev("tick")
  /\ UNCHANGED inFlight
  /\ UNCHANGED <<scen, selectedExercise, selectedExerciseRef, isWorkoutActive,
                 isActiveRef, countdown, showSummary, metricsRef, flagsObj,
                 lastRepAtRef, starting, intervals, timerInterval,
                 mirrorPending, staleFrames, now>>

\* React renders and commits the published metrics.  The effects of the
\* previous commit that have not run yet run first; the effects of this
\* commit (the mirror metricsRef.current = metrics and the ticker effect,
\* with the values of this render) are left pending.
Commit ==
  /\ renderPending
  /\ Install(IF mirrorPending.some THEN mirrorPending.m ELSE metricsRef,
             metrics,
             [some |-> TRUE, m |-> metrics,
              timerOn |-> TimerCond(isWorkoutActive, selectedExercise, metrics)],
             flagsObj)
  /\ timerInterval' =
       IF mirrorPending.some THEN mirrorPending.timerOn ELSE timerInterval
  /\ renderPending' = FALSE
  /\ ev' = Ev("other")
  /\ UNCHANGED inFlight
  /\ scen' = IF Val(metricsRef)' = Val(metricsRef) THEN scen ELSE ScenOff
  /\ UNCHANGED <<staleFrames, selectedExercise, selectedExerciseRef, isWorkoutActive,
                 isActiveRef, countdown, showSummary, lastRepAtRef, starting,
                 intervals, now>>

\* The pending effects run: metricsRef.current = metrics of their render.
FlushEffects ==
  /\ mirrorPending.some
  /\ Install(mirrorPending.m, metrics, NoEffects, flagsObj)
  /\ timerInterval' = mirrorPending.timerOn
  /\ ev' = Ev("other")
  /\ UNCHANGED inFlight
  /\ scen' = IF Val(metricsRef)' = Val(metricsRef) THEN scen ELSE ScenOff
  /\ UNCHANGED <<staleFrames, selectedExercise, selectedExerciseRef, isWorkoutActive,
                 isActiveRef, countdown, showSummary, lastRepAtRef, starting,
                 intervals, renderPending, now>>

\* A click is a discrete event: React runs the pending effects, renders and
\* runs the new effects before the handler's task ends.
\* setSelectedExercise(x) from the exercise picker (x an id) or from the
\* Change Exercise button (x = null), with the effects on [selectedExercise].
\* (First, a variant that leaves lastRepAtRef as it is.)
setSelectedExerciseKeepStamp(x) ==
  /\ ~showSummary
  /\ \/ selectedExercise = null /\ x \in exercises
     \/ selectedExercise # null /\ x = null
  /\ selectedExercise' = x
  /\ selectedExerciseRef' = x
  /\ Install(baseAt(NewObj), baseAt(NewObj), NoEffects,
             WithNew(flagsObj, NoFlags))
  /\ timerInterval' = TimerCond(isWorkoutActive, x, base)
  /\ renderPending' = FALSE
  /\ staleFrames' = 0
  /\ ev' = EvNew("select")
  /\ UNCHANGED inFlight
  /\ scen' = ScenOff
  /\ UNCHANGED <<isWorkoutActive, isActiveRef, countdown, showSummary,
                 starting, intervals, now, lastRepAtRef>>

\* A variant that ends the session on a selection.
setSelectedExerciseStops(x) ==
  /\ ~showSummary
  /\ \/ selectedExercise = null /\ x \in exercises
     \/ selectedExercise # null /\ x = null
  /\ selectedExercise' = x
  /\ selectedExerciseRef' = x
  /\ Install(baseAt(NewObj), baseAt(NewObj), NoEffects,
             WithNew(flagsObj, NoFlags))
  /\ lastRepAtRef' = 0
  /\ timerInterval' = FALSE
  /\ renderPending' = FALSE
  /\ staleFrames' = 0
  /\ ev' = EvNew("select")
  /\ UNCHANGED inFlight
  /\ scen' = ScenOff
  /\ isWorkoutActive' = FALSE /\ isActiveRef' = FALSE
  /\ UNCHANGED <<countdown, showSummary, starting, intervals, now>>

setSelectedExercise(x) ==
  /\ ~showSummary
  /\ \/ selectedExercise = null /\ x \in exercises
     \/ selectedExercise # null /\ x = null
  /\ selectedExercise' = x
  /\ selectedExerciseRef' = x
  /\ Install(baseAt(NewObj), baseAt(NewObj), NoEffects,
             WithNew(flagsObj, NoFlags))
  /\ lastRepAtRef' = 0
  /\ timerInterval' = TimerCond(isWorkoutActive, x, base)
  /\ renderPending' = FALSE
  /\ staleFrames' = 0
  /\ ev' = EvNew("select")
  /\ UNCHANGED inFlight
  /\ scen' = ScenOff
  /\ UNCHANGED <<isWorkoutActive, isActiveRef, countdown, showSummary,
                 starting, intervals, now>>

\* startWorkout up to its await startCamera().
startWorkout ==
  /\ selectedExercise # null /\ ~showSummary
  /\ ~isWorkoutActive /\ countdown = 0
  /\ starting + intervals < MaxIntervals
  /\ countdown' = CountdownFrom
  /\ starting' = starting + 1
  /\ Install(IF mirrorPending.some THEN mirrorPending.m ELSE metricsRef,
             metrics, NoEffects, flagsObj)
  /\ timerInterval' =
       IF mirrorPending.some THEN mirrorPending.timerOn ELSE timerInterval
  /\ ev' = Ev("start")
  /\ UNCHANGED inFlight
  /\ scen' = ScenOff
  /\ UNCHANGED <<staleFrames, selectedExercise, selectedExerciseRef, isWorkoutActive,
                 isActiveRef, showSummary, lastRepAtRef, intervals,
                 renderPending, now>>

\* startCamera() has settled (started or failed): startWorkout resumes and
\* sets the countdown interval.
startCountdown ==
  /\ starting > 0
  /\ starting' = starting - 1
  /\ intervals' = intervals + 1
  /\ ev' = Ev("camera")
  /\ UNCHANGED inFlight
  /\ UNCHANGED <<scen, selectedExercise, selectedExerciseRef, isWorkoutActive,
                 isActiveRef, countdown, showSummary, metrics, metricsRef,
                 flagsObj, lastRepAtRef, timerInterval, renderPending,
                 mirrorPending, staleFrames, now>>

\* (First, two variants: one that also activates when the countdown has been
\* cancelled, one that activates a tick early.)
countdownTickFromNull ==
  /\ intervals > 0
  /\ now + TickMs <= MaxNow
  /\ now' = now + TickMs
  /\ IF countdown = 1 \/ countdown = 0
     THEN /\ intervals' = intervals - 1
          /\ isWorkoutActive' = TRUE
          /\ isActiveRef' = TRUE
          /\ countdown' = 0
     ELSE /\ countdown' = IF countdown # 0 THEN countdown - 1 ELSE 0
          /\ UNCHANGED <<intervals, isWorkoutActive, isActiveRef>>
  /\ ev' = Ev("countdown")
  /\ UNCHANGED inFlight
  /\ UNCHANGED <<scen, selectedExercise, selectedExerciseRef, showSummary, metrics,
                 metricsRef, flagsObj, lastRepAtRef, starting, timerInterval,
                 renderPending, mirrorPending, staleFrames>>

countdownTickEarly ==
  /\ intervals > 0
  /\ now + TickMs <= MaxNow
  /\ now' = now + TickMs
  /\ IF countdown = 2
     THEN /\ intervals' = intervals - 1
          /\ isWorkoutActive' = TRUE
          /\ isActiveRef' = TRUE
          /\ countdown' = 0
     ELSE /\ countdown' = IF countdown # 0 THEN countdown - 1 ELSE 0
          /\ UNCHANGED <<intervals, isWorkoutActive, isActiveRef>>
  /\ ev' = Ev("countdown")
  /\ UNCHANGED inFlight
  /\ UNCHANGED <<scen, selectedExercise, selectedExerciseRef, showSummary, metrics,
                 metricsRef, flagsObj, lastRepAtRef, starting, timerInterval,
                 renderPending, mirrorPending, staleFrames>>

\* A countdown interval fires, a second after its previous firing:
\* setCountdown(prev => ...), activating the session at 1 and leaving a
\* cancelled countdown (null) as it is.
countdownTick ==
  /\ intervals > 0
  /\ now + TickMs <= MaxNow
  /\ now' = now + TickMs
  /\ IF countdown = 1
     THEN /\ intervals' = intervals - 1
          /\ isWorkoutActive' = TRUE
          /\ isActiveRef' = TRUE
          /\ countdown' = 0
     ELSE /\ countdown' = IF countdown # 0 THEN countdown - 1 ELSE 0
          /\ UNCHANGED <<intervals, isWorkoutActive, isActiveRef>>
  /\ ev' = Ev("countdown")
  /\ UNCHANGED inFlight
  /\ UNCHANGED <<scen, selectedExercise, selectedExerciseRef, showSummary, metrics,
                 metricsRef, flagsObj, lastRepAtRef, starting, timerInterval,
                 renderPending, mirrorPending, staleFrames>>

\* (First, a variant that zeroes the session state before the summary.)
endWorkoutClears ==
  /\ selectedExercise # null /\ ~showSummary
  /\ isWorkoutActive \/ countdown # 0
  /\ isWorkoutActive' = FALSE
  /\ isActiveRef' = FALSE
  /\ showSummary' = TRUE
  /\ Install(baseAt(NewObj), baseAt(NewObj), NoEffects,
             WithNew(flagsObj, NoFlags))
  /\ timerInterval' = FALSE
  /\ staleFrames' = 0
  /\ inFlight' = TRUE
  /\ ev' = EvNew("end")
  /\ scen' = ScenOff
  /\ UNCHANGED <<selectedExercise, selectedExerciseRef, countdown,
                 lastRepAtRef, starting, intervals, renderPending, now>>

endWorkout ==
  /\ selectedExercise # null /\ ~showSummary
  /\ isWorkoutActive \/ countdown # 0
  /\ isWorkoutActive' = FALSE
  /\ isActiveRef' = FALSE
  /\ showSummary' = TRUE
  /\ Install(IF mirrorPending.some THEN mirrorPending.m ELSE metricsRef,
             metrics, NoEffects, flagsObj)
  /\ timerInterval' = FALSE
  /\ staleFrames' = 0
  /\ inFlight' = TRUE
  /\ ev' = EvNew("end")
  /\ scen' = ScenOff
  /\ UNCHANGED <<selectedExercise, selectedExerciseRef, countdown,
                 lastRepAtRef, starting, intervals, renderPending, now>>

\* (First, a variant of resetWorkout without metricsRef.current = base.)
resetWorkoutKeepMirror ==
  /\ showSummary \/ selectedExercise # null
  /\ Install(metricsRef, baseAt(NewObj), NoEffects,
             WithNew(flagsObj, NoFlags))
  /\ isWorkoutActive' = FALSE
  /\ isActiveRef' = FALSE
  /\ countdown' = 0
  /\ showSummary' = FALSE
  /\ lastRepAtRef' = 0
  /\ timerInterval' = FALSE
  /\ renderPending' = FALSE
  /\ staleFrames' = 0
  /\ inFlight' = FALSE
  /\ ev' = EvNew("reset")
  /\ scen' = ScenOff
  /\ UNCHANGED <<selectedExercise, selectedExerciseRef, starting, intervals,
                 now>>

resetWorkout ==
  /\ showSummary \/ selectedExercise # null
  /\ Install(baseAt(NewObj), baseAt(NewObj), NoEffects,
             WithNew(flagsObj, NoFlags))
  /\ isWorkoutActive' = FALSE
  /\ isActiveRef' = FALSE
  /\ countdown' = 0
  /\ showSummary' = FALSE
  /\ lastRepAtRef' = 0
  /\ timerInterval' = FALSE
  /\ renderPending' = FALSE
  /\ staleFrames' = 0
  /\ inFlight' = FALSE
  /\ ev' = EvNew("reset")
  /\ scen' = ScenOff
  /\ UNCHANGED <<selectedExercise, selectedExerciseRef, starting, intervals,
                 now>>

\* Time passes while the session is active (the clock is read only by a
\* classified frame).
\* The clock is read 0, 200 and 600 ms after the session has become active,
\* which gives two readings every gap of 200, 400 and 600 ms.
ClockReadings == {0, 200, 600}
ClockSteps == {200, 400, 600}
Advance(dt) ==
  /\ isActiveRef
  /\ (now % TickMs) + dt <= MaxElapsed
  /\ (now % TickMs) + dt \in ClockReadings
  /\ now' = now + dt
  /\ ev' = Ev("other")
  /\ UNCHANGED inFlight
  /\ UNCHANGED <<scen, selectedExercise, selectedExerciseRef, isWorkoutActive,
                 isActiveRef, countdown, showSummary, metrics, metricsRef,
                 flagsObj, lastRepAtRef, starting, intervals, timerInterval,
                 renderPending, mirrorPending, staleFrames>>

\* The results the pose source delivers while id is selected, one for each
\* class of results that the processor of id cannot tell apart: two results
\* are alike when both carry landmarks, or both carry none, and land returns
\* the same point for every landmark the processor reads. With no
\* processor selected every landmark counts.
SameInput(id, f, g) ==
  /\ f.detected = g.detected
  /\ \A i \in (IF id \in exercises THEN Tracked(id) ELSE ArmIdx \cup LegIdx) :
       land(f.poseLandmarks.pts, i) = land(g.poseLandmarks.pts, i)
FramesFor ==
  [id \in exercises \cup {null} |->
     {CHOOSE g \in Frames : SameInput(id, f, g) : f \in Frames}]

Next ==
  \/ \E results \in FramesFor[selectedExerciseRef] : onPoseResults(results)
  \/ TimerTick
  \/ Commit
  \/ FlushEffects
  \/ \E x \in exercises \cup {null} : setSelectedExercise(x)
  \/ startWorkout
  \/ startCountdown
  \/ countdownTick
  \/ endWorkout
  \/ resetWorkout
  \/ \E dt \in ClockSteps : Advance(dt)

Spec == Init /\ [][Next]_vars

\* The same program when the promise of startCamera settles (it resolves, or
\* it rejects and startCamera catches the error) and the countdown interval
\* keeps firing.
LiveSpec == Spec /\ WF_vars(startCountdown) /\ WF_vars(countdownTick)

\* -------------------------------------------------------------- the claims
\* The session state onPoseResults copies (metricsRef.current), and the
\* exercise it dispatches on.
Cur == Val(metricsRef)
Pub == Val(metrics)
Exercise == selectedExerciseRef

\* The step classified a frame; the frame was a candidate that reached the
\* gate.
Classified == ev'.op = "frame" /\ ev'.branch = "classified"
AtGate == Classified /\ ev'.gate \in {"accepted", "rejected"}

CountsOk(m) == 0 <= m.goodReps /\ m.goodReps <= m.reps

\* C1: in every reachable state 0 <= goodReps <= reps, in the published
\* snapshot, in the mirror and in the snapshot pending effects hold.
C1_GoodWithinReps ==
  /\ CountsOk(metrics)
  /\ CountsOk(metricsRef)
  /\ mirrorPending.some => CountsOk(mirrorPending.m)

\* A session with a good and a not good repetition counted.
C1_Witness == metrics.reps = 2 /\ metrics.goodReps = 1

\* C2: outside resetWorkout and an exercise switch, reps and goodReps of the
\* published snapshot never decrease from one snapshot to the next.
C2_PublishedNonDecreasing ==
  [][ev'.op \notin {"reset", "select"}
       => /\ metrics'.reps >= metrics.reps
          /\ metrics'.goodReps >= metrics.goodReps]_vars

\* C3: a candidate that reaches the gate less than the exercise's cooldown
\* after the last accepted one is not counted, and no frame between two
\* candidates changes the counts.
C3_Debounce ==
  [][Classified
       => /\ (AtGate /\ now - lastRepAtRef < Cooldown(Exercise))
               => (ev'.gate = "rejected" /\ Cur'.reps = Cur.reps)
          /\ ~AtGate => (Cur'.reps = Cur.reps /\ Cur'.goodReps = Cur.goodReps)]_vars

\* A bicep curl candidate 200 ms after the accepted one: reps stays 1.
C3_Witness ==
  /\ ev.op = "frame" /\ ev.gate = "rejected"
  /\ Exercise = "bicep_curl"
  /\ now - lastRepAtRef = 200
  /\ Cur.reps = 1

\* C4: the gate accepts exactly when now - lastRepAt > cooldownMs; an
\* accepted candidate adds one repetition and sets lastRepAt to now; a
\* rejected one leaves reps, goodReps and lastRepAt as they were and keeps
\* the flexed stage and the flags the processor had written.
C4_GateStrict ==
  [][AtGate
       => /\ (ev'.gate = "accepted")
                <=> (now - lastRepAtRef > Cooldown(Exercise))
          /\ ev'.gate = "accepted"
               => (Cur'.reps = Cur.reps + 1 /\ lastRepAtRef' = now)
          /\ ev'.gate = "rejected"
               => /\ Cur'.reps = Cur.reps
                  /\ Cur'.goodReps = Cur.goodReps
                  /\ lastRepAtRef' = lastRepAtRef
                  /\ Cur'.stage = FlexStage(Exercise)
                  /\ \A f \in DOMAIN NoFlags :
                       Cur.formFlags[f] = "true" => Cur'.formFlags[f] = "true"
                  /\ ev'.zone = "strict"
                       => StrictFlag(Exercise, Cur'.formFlags) = "true"]_vars

\* A candidate exactly the cooldown after the accepted one, rejected.
C4_Witness ==
  /\ ev.op = "frame" /\ ev.gate = "rejected" /\ ev.zone = "strict"
  /\ lastRepAtRef > 0
  /\ now - lastRepAtRef = Cooldown(Exercise)

\* C5: an accepted repetition whose angle is past the relaxed flexed
\* threshold but not past the strict one adds one to reps, nothing to
\* goodReps, and leaves a feedback other than the affirmative message.
C5_RelaxedNotGood ==
  [][(Classified /\ ev'.gate = "accepted" /\ ev'.zone = "relaxed")
       => /\ Cur'.reps = Cur.reps + 1
          /\ Cur'.goodReps = Cur.goodReps
          /\ Cur'.feedback # <<"Good form!">>]_vars

\* C6: a frame changes reps only when its angle is past the flexed relaxed
\* threshold and the stage it finds is the extended one; from ready no
\* frame counts, and only a frame past the rest threshold leaves ready.
C6_Hysteresis ==
  [][(Classified /\ Exercise \in DynamicExercises)
       => /\ Cur'.reps # Cur.reps
               => /\ ev'.zone \in {"relaxed", "strict"}
                  /\ Cur.stage = RestStage(Exercise)
          /\ Cur.stage = "ready"
               => /\ Cur'.reps = Cur.reps
                  /\ Cur'.stage # "ready" => ev'.zone = "rest"]_vars

\* A frame past the flexed threshold in the ready stage: nothing counted.
C6_Witness ==
  /\ ev.op = "frame" /\ ev.zone \in {"relaxed", "strict"}
  /\ Cur.stage = "ready" /\ Cur.reps = 0

\* C7: the scripted session (angles 170, 160, 45, 170, 35, the candidates
\* 400 ms apart, from the zero session state) ends with reps = 2 and
\* goodReps = 1.
C7_Scenario ==
  scen.step = Len(ScenAngles)
    => /\ Cur.reps = 2 /\ Cur.goodReps = 1
       /\ Pub.reps = 2 /\ Pub.goodReps = 1

\* The script has run to its last frame.
C7_Witness == scen.step = Len(ScenAngles) /\ now = scen.t0 + ScenGap

\* The variables of the program (all but the history).
program == <<selectedExercise, selectedExerciseRef, isWorkoutActive,
             isActiveRef, countdown, showSummary, metrics, metricsRef,
             flagsObj, lastRepAtRef, starting, intervals, timerInterval,
             renderPending, mirrorPending, now>>

\* C8: a frame without landmarks changes nothing: reps, goodReps, stage,
\* formFlags, feedback and lastRepAt, and every other variable of the
\* program, are as before.
C8_NoDetectionNoChange ==
  [][\A results \in Frames :
       (~results.detected /\ onPoseResults(results))
         => /\ Cur' = Cur /\ Pub' = Pub /\ lastRepAtRef' = lastRepAtRef
            /\ UNCHANGED program]_vars

\* A frame without landmarks in an active session with a counted
\* repetition, in the flexed stage.
C8_Witness ==
  /\ ev.op = "frame" /\ ev.branch = "nopose"
  /\ Exercise \in DynamicExercises
  /\ Cur.reps >= 1 /\ Cur.stage = FlexStage(Exercise)

\* Every landmark the processor of id reads is missing from the frame.
Occluded(id, results) ==
  results.detected /\ Tracked(id) \cap DOMAIN results.poseLandmarks.pts = {}

\* C9: a classified frame whose tracked landmarks are all missing leaves
\* reps, goodReps and stage as they were, for every dynamic exercise.
C9_OcclusionHarmless ==
  [][\A results \in Frames :
       (/\ isActiveRef /\ Exercise \in DynamicExercises
        /\ Occluded(Exercise, results)
        /\ onPoseResults(results))
         => /\ Cur'.reps = Cur.reps
            /\ Cur'.goodReps = Cur.goodReps
            /\ Cur'.stage = Cur.stage]_vars

C11_PostureBlocks ==
  [][\A results \in Frames :
       (/\ isActiveRef /\ Exercise = "pushups" /\ results.detected
        /\ ~PostureOk("pushups", results.poseLandmarks)
        /\ onPoseResults(results))
         => /\ Cur'.formFlags.isBackStraight = "false"
            /\ Cur'.feedback = <<"Keep your body straight!">>
            /\ Cur'.reps = Cur.reps
            /\ Cur'.goodReps = Cur.goodReps]_vars

\* C12: an accepted candidate adds exactly one to reps; with isDeepEnough
\* and isFullyUp both set it adds one to goodReps and the feedback is the
\* affirmative message alone, otherwise goodReps stays and the feedback is
\* the advisory the frame carried to the gate; the flags are cleared and
\* lastRepAt is the time of the frame.
C12_Acceptance ==
  [][\A results \in Frames :
       (Classified /\ ev'.gate = "accepted" /\ onPoseResults(results))
         => LET p == results.poseLandmarks
                flags == GateFlags(Exercise, p, Cur.formFlags)
                good == Truthy(flags.isDeepEnough) /\ Truthy(flags.isFullyUp)
            IN  /\ Cur'.reps = Cur.reps + 1
                /\ Cur'.goodReps = Cur.goodReps + (IF good THEN 1 ELSE 0)
                /\ Cur'.feedback =
                     IF good THEN <<"Good form!">>
                     ELSE GateFeedback(Exercise, p, Cur.feedback)
                /\ Cur'.formFlags = NoFlags
                /\ lastRepAtRef' = now
                /\ Pub' = Cur']_vars

\* A second repetition accepted without good form after a good one.
C12_Witness ==
  /\ ev.op = "frame" /\ ev.gate = "accepted" /\ ev.zone = "relaxed"
  /\ Cur.reps = 2 /\ Cur.goodReps = 1
  /\ Cur.feedback = RelaxedAdvice(Exercise)
  /\ Cur.formFlags = NoFlags /\ lastRepAtRef = now

\* C13: when a frame brings the stage to extended from another stage, the
\* flag of the strict threshold is not set: no flag of an earlier cycle is
\* left.
C13_FlagsPerCycle ==
  [][(/\ Classified /\ Exercise \in DynamicExercises
      /\ Cur.stage # RestStage(Exercise)
      /\ Cur'.stage = RestStage(Exercise))
       => StrictFlag(Exercise, Cur'.formFlags) # "true"]_vars

\* C14: after a classified frame the feedback holds at most one message,
\* and none when the frame's evaluation produced none (an angle in the
\* rest zone or between the thresholds, posture in order).
C14_FeedbackReplaced ==
  [][\A results \in Frames :
       (/\ Classified /\ Exercise \in DynamicExercises
        /\ onPoseResults(results))
         => /\ Len(Cur'.feedback) <= 1
            /\ (/\ ev'.zone \in {"rest", "mid"}
                /\ PostureAdvice(Exercise, results.poseLandmarks, <<>>) = <<>>)
                 => Cur'.feedback = <<>>]_vars

\* The fields of the session state other than the feedback.
Counters(m) == [reps |-> m.reps, goodReps |-> m.goodReps, stage |-> m.stage,
                formFlags |-> m.formFlags, timer |-> m.timer,
                isTimerRunning |-> m.isTimerRunning]

\* C15: selecting an exercise (or none) leaves the zero session state in
\* the mirror and in the published snapshot, lastRepAt 0 and no effect of
\* an earlier render pending, so the frames of the new exercise start from
\* the zero state.
C15_SwitchResets ==
  [][ev'.op = "select"
       => /\ selectedExerciseRef' = selectedExercise'
          /\ Cur' = base /\ Pub' = base
          /\ lastRepAtRef' = 0
          /\ ~mirrorPending'.some /\ ~renderPending']_vars

\* An exercise selected while the session is active, time having passed
\* since it was activated.
C15_Witness ==
  /\ ev.op = "select" /\ selectedExercise \in exercises
  /\ isActiveRef /\ now % TickMs # 0

\* C16: resetWorkout leaves the session inactive, the zero session state in
\* the mirror and in the published snapshot and lastRepAt 0; a second
\* resetWorkout right after it changes nothing.
C16_ResetZero ==
  [][ev'.op = "reset"
       => /\ ~isWorkoutActive' /\ ~isActiveRef'
          /\ countdown' = 0 /\ ~showSummary'
          /\ Cur' = base /\ Pub' = base
          /\ lastRepAtRef' = 0
          /\ ev.op = "reset" => UNCHANGED program]_vars

\* resetWorkout during the countdown.
C16_Witness ==
  /\ ev.op = "reset" /\ intervals > 0 /\ now > 0 /\ now < MaxNow

\* C17: a frame that arrives while the session is not active, or while no
\* exercise is selected, leaves reps, goodReps, stage, formFlags, timer,
\* isTimerRunning and lastRepAt as they were.
C17_InactiveFrames ==
  [][(ev'.op = "frame" /\ (~isActiveRef \/ selectedExerciseRef = null))
       => /\ Counters(Cur') = Counters(Cur)
          /\ Counters(Pub') = Counters(Pub)
          /\ lastRepAtRef' = lastRepAtRef]_vars

\* A frame with landmarks after endWorkout, the session having counted.
C17_Witness ==
  /\ ev.op = "frame" /\ ev.branch = "inactive"
  /\ showSummary /\ Cur.reps >= 1

\* C18: with landmarks, an active session and no processor for the selected
\* id (the empty selection), the frame leaves every field of the session
\* state and lastRepAt as they were.
C18_UnknownIdentity ==
  [][(/\ Classified /\ isActiveRef
      /\ selectedExerciseRef \notin exercises)
       => /\ Cur' = Cur /\ Pub' = Cur
          /\ lastRepAtRef' = lastRepAtRef]_vars

\* A frame with flexed arms classified with no exercise selected.
C18_Witness ==
  /\ ev.op = "frame" /\ ev.branch = "classified"
  /\ selectedExerciseRef = null /\ renderPending

\* The shoulder-hip-ankle angle of a frame as measured, before
\* calculateAngle folds it into 0..180.
BodyUnfolded(p) ==
  unfoldedAngle(land(p.pts, R_SHOULDER), land(p.pts, R_HIP),
                land(p.pts, R_ANKLE))

\* C19: a plank frame sets isTimerRunning, with the affirmative feedback,
\* exactly when the body angle of that frame is inside the band 155-205,
\* and clears it with the corrective feedback otherwise, whatever the state
\* before: frames measuring 180 and 170 degrees set it, a frame measuring
\* 210 degrees clears it.
C19_PlankBand ==
  [][\A results \in Frames :
       (/\ ev'.op = "frame" /\ isActiveRef /\ Exercise = "plank"
        /\ results.detected
        /\ onPoseResults(results))
         => LET a == BodyUnfolded(results.poseLandmarks)
                inBand == a > 155 /\ a < 205
            IN  /\ Cur'.isTimerRunning = inBand
                /\ Cur'.feedback = IF inBand THEN <<"Good form! Hold it.">>
                                   ELSE <<"Straighten your back!">>
                /\ a \in {180, 170} => Cur'.isTimerRunning
                /\ a = 210 => ~Cur'.isTimerRunning
                /\ Pub'.isTimerRunning = Cur'.isTimerRunning]_vars

\* The hold has been interrupted: a frame out of the band after the timer
\* had run.
C19_Witness ==
  /\ ev.op = "frame" /\ Exercise = "plank"
  /\ ~Cur.isTimerRunning /\ Cur.feedback = <<"Straighten your back!">>
  /\ Cur.timer >= 1

\* C20: the published timer increases only by one, only on a tick of the
\* ticker, and only while the session is active, the exercise is plank
\* and isTimerRunning is true.
C20_TimerOnlyByTicks ==
  [][metrics'.timer > metrics.timer
       => /\ ev'.op = "tick"
          /\ metrics'.timer = metrics.timer + 1
          /\ isWorkoutActive /\ selectedExercise = "plank"
          /\ metrics.isTimerRunning]_vars

\* C21: once endWorkout has run (the summary is showing, where startWorkout
\* cannot be invoked), the session is inactive: isWorkoutActive and its
\* mirror are false.
C21_EndInert == showSummary => (~isWorkoutActive /\ ~isActiveRef)

\* The snapshot of the committed render, which its pending effects hold.
Rendered == Val(mirrorPending.m)

\* C22: classifying a frame leaves the snapshot published before it (the one
\* the committed render holds) as it was, its formFlags record included.
C22_SnapshotsKept ==
  [][(Classified /\ mirrorPending.some) => Rendered' = Rendered]_vars

\* The delays of a re-delivery, and the counts and stage of a snapshot.
Redelays == {0, 400, 800}
Tally(m) == <<m.reps, m.goodReps, m.stage>>

C24_OncePerCycle ==
  [][(Classified /\ Exercise = "overhead_press" /\ Cur'.reps > Cur.reps)
       => "accepted" \notin ev.open]_vars

\* C25: a squat frame on which the gate rejects a candidate leaves the stage
\* flexed, and no frame raises reps after it until a frame has set the
\* stage at the rest threshold again.
C25_RejectedDropped ==
  [][(Classified /\ Exercise = "squats") =>
       /\ ev'.gate = "rejected" => Cur'.stage = "down"
       /\ Cur'.reps > Cur.reps => "rejected" \notin ev.open]_vars

\* The fields of the mirror that only onPoseResults, a selection and a
\* reset write.
Written(m) == [reps |-> m.reps, goodReps |-> m.goodReps, stage |-> m.stage,
               formFlags |-> m.formFlags, feedback |-> m.feedback,
               isTimerRunning |-> m.isTimerRunning]

\* C26: between two frame callbacks (no selection, no reset) the state the
\* next callback will read keeps what the last callback wrote: no render,
\* run of effects or other handler changes the counts, stage, flags or
\* feedback of the mirror.
C26_MirrorFresh ==
  [][ev'.op \notin {"frame", "select", "reset"}
       => Written(Cur') = Written(Cur)]_vars

\* C27: without a reset or an exercise switch the published timer never
\* decreases.
C27_TimerMonotone ==
  [][ev'.op \notin {"select", "reset"} => metrics'.timer >= metrics.timer]_vars

\* C28: a push-up candidate blocked by posture moves the stage to flexed,
\* keeps the flags and counts nothing, and no frame raises reps after it
\* until a frame has set the stage at the rest threshold again.
C28_BlockedDropped ==
  [][(Classified /\ Exercise = "pushups") =>
       /\ ev'.gate = "blocked" =>
            /\ Cur'.stage = "down"
            /\ Cur'.reps = Cur.reps /\ Cur'.goodReps = Cur.goodReps
            /\ Cur'.formFlags.isFullyUp = Cur.formFlags.isFullyUp
            /\ Truthy(Cur.formFlags.isDeepEnough)
                 => Truthy(Cur'.formFlags.isDeepEnough)
            /\ lastRepAtRef' = lastRepAtRef
       /\ Cur'.reps > Cur.reps => "blocked" \notin ev.open]_vars

\* The flag a processor sets at its rest threshold.
RestFlag(id, flags) ==
  IF RestStage(id) = "up" \/ id \in {"bicep_curl", "pullups"}
  THEN flags.isFullyUp ELSE flags.isDeepEnough
RestFlagged(m) ==
  (Exercise \in DynamicExercises /\ m.stage = RestStage(Exercise))
    => RestFlag(Exercise, m.formFlags) = "true"

\* C29: after every step, a snapshot (mirror or published) of a dynamic
\* exercise whose stage is the extended one has the rest flag true; on a
\* frame whose candidate reaches the gate the rest flag is set, and an
\* accepted repetition adds to goodReps exactly when the strict flag is set
\* at the acceptance (by this frame or an earlier one).
C29_RestFlagSet ==
  [][/\ RestFlagged(Cur)' /\ RestFlagged(Pub)'
     /\ AtGate => RestFlag(Exercise, Cur.formFlags) = "true"
     /\ (Classified /\ ev'.gate = "accepted") =>
          (Cur'.goodReps = Cur.goodReps + 1
             <=> (ev'.zone = "strict"
                  \/ StrictFlag(Exercise, Cur.formFlags) = "true"))]_vars

\* An overhead press accepted with only the rest flag set: not good.
C29_Witness ==
  /\ ev.op = "frame" /\ ev.gate = "accepted" /\ ev.zone = "relaxed"
  /\ Exercise = "overhead_press"
  /\ Cur.reps = 1 /\ Cur.goodReps = 0

\* C30: a frame raises reps by at most one and goodReps by at most one, the
\* latter only where reps rises, and lastRepAtRef changes exactly on the
\* frames where reps rises.
C30_OnePerFrame ==
  [][ev'.op = "frame" =>
       /\ Cur'.reps - Cur.reps \in {0, 1}
       /\ Cur'.goodReps - Cur.goodReps \in {0, 1}
       /\ Cur'.goodReps > Cur.goodReps => Cur'.reps > Cur.reps
       /\ lastRepAtRef' # lastRepAtRef <=> Cur'.reps > Cur.reps]_vars

\* A candidate rejected by the gate after a counted repetition: reps and
\* lastRepAtRef as before.
C30_Witness ==
  /\ ev.op = "frame" /\ ev.gate = "rejected"
  /\ Cur.reps = 1 /\ Cur.goodReps = 1
  /\ lastRepAtRef > 0 /\ lastRepAtRef < now

\* The flags after a processor's first if has set its flag.
SetRestFlag(id, flags) ==
  IF RestStage(id) = "up" \/ id \in {"bicep_curl", "pullups"}
  THEN [flags EXCEPT !.isFullyUp = "true"]
  ELSE [flags EXCEPT !.isDeepEnough = "true"]

\* The state a processor has built when it reaches its first if: the copy
\* of prev after the posture test.
AfterPosture(id, p, prev) ==
  [prev EXCEPT !.feedback = PostureAdvice(id, p, @),
               !.formFlags = IF id = "pushups"
                             THEN [@ EXCEPT !.isBackStraight =
                                     IF PostureOk(id, p) THEN "true"
                                     ELSE "false"]
                             ELSE @]

\* The specified algorithm of a dynamic exercise: the rest threshold, else
\* the flexed threshold from the rest stage, else nothing.
ElseIfProcessor(id, p, prev, t, last) ==
  LET n0 == AfterPosture(id, p, prev)
  IN  IF RestCond(id, p)
      THEN Plain([n0 EXCEPT !.stage = RestStage(id),
                            !.formFlags = SetRestFlag(id, @)], last)
      ELSE IF prev.stage = RestStage(id) /\ FlexCond(id, p)
      THEN LET n3 == [n0 EXCEPT
                        !.stage = FlexStage(id),
                        !.formFlags = GateFlags(id, p, prev.formFlags),
                        !.feedback = GateFeedback(id, p, prev.feedback)]
           IN  IF PostureOk(id, p) THEN tryCount(n3, t, Cooldown(id), last)
               ELSE Plain(n3, last)
      ELSE Plain(n0, last)

\* C31: for every dynamic exercise and every frame the rest condition and
\* the flexed condition of its processor do not both hold, a frame in the
\* rest condition submits no candidate, and the processor's two independent
\* ifs give the result of the if / else-if algorithm from the state the
\* engine holds.
C31_IfElseIf ==
  (isActiveRef /\ Exercise \in DynamicExercises) =>
    \A results \in Frames :
      results.detected =>
        LET p == results.poseLandmarks
            r == exerciseProcessors(Exercise, p, Cur, now, lastRepAtRef)
        IN  /\ ~(RestCond(Exercise, p) /\ FlexCond(Exercise, p))
            /\ RestCond(Exercise, p) => ~r.tried
            /\ r = ElseIfProcessor(Exercise, p, Cur, now, lastRepAtRef)
\* A lunge frame with a knee bent past the relaxed threshold, taken from the
\* rest stage and counted.
C31_Witness ==
  /\ ev.op = "frame" /\ Exercise = "lunges" /\ ev.zone = "relaxed"
  /\ ev.gate = "accepted" /\ Cur.stage = "down" /\ Cur.reps = 1

\* C32: a classified plank frame leaves reps, goodReps, stage, formFlags,
\* timer and lastRepAt as the engine held them; it writes only isTimerRunning
\* and feedback.
C32_PlankNoCounting ==
  [][(Classified /\ Exercise = "plank") =>
       /\ Cur'.reps = Cur.reps /\ Cur'.goodReps = Cur.goodReps
       /\ Cur'.stage = Cur.stage /\ Cur'.formFlags = Cur.formFlags
       /\ Cur'.timer = Cur.timer
       /\ lastRepAtRef' = lastRepAtRef]_vars
\* A plank frame inside the band, classified after the hold timer has
\* counted two seconds.
C32_Witness ==
  /\ ev.op = "frame" /\ ev.branch = "classified" /\ Exercise = "plank"
  /\ Cur.timer = 2 /\ Cur.isTimerRunning
  /\ Cur.feedback = <<"Good form! Hold it.">>

\* C33: a selection (Change Exercise, or picking an exercise) leaves the
\* activity flag, its mirror and the countdown as they were; a landmark frame
\* that arrives right after a selection made in an active session is
\* classified by the processor of the selected exercise from the zero state,
\* no countdown running.
C33_SelectKeepsActive ==
  [][/\ ev'.op = "select" =>
          /\ isWorkoutActive' = isWorkoutActive
          /\ isActiveRef' = isActiveRef
          /\ countdown' = countdown
          /\ starting' = starting /\ intervals' = intervals
     /\ \A results \in Frames :
          (/\ ev.op = "select" /\ isActiveRef /\ results.detected
           /\ ev'.op = "frame"
           /\ onPoseResults(results))
            => /\ countdown' = 0 /\ isActiveRef'
               /\ ev'.branch = "classified"
               /\ Cur' = exerciseProcessors(selectedExercise,
                                            results.poseLandmarks, base,
                                            now, 0).next]_vars
\* Squats selected in a running session, which was activated under an
\* earlier selection.
C33_Witness ==
  /\ ev.op = "select" /\ selectedExercise = "squats"
  /\ isWorkoutActive /\ isActiveRef /\ countdown = 0
  /\ now > CountdownFrom * TickMs

\* C34: once the countdown has been cancelled by resetWorkout while its
\* interval is live or startWorkout is still waiting for the camera, no step
\* other than a new startWorkout activates the session or restarts the
\* countdown, and the interval stays: it keeps firing without effect.
Cancelled == countdown = 0 /\ ~isWorkoutActive /\ starting + intervals > 0
C34_ResetCancels ==
  [][/\ (ev'.op = "reset" /\ countdown # 0) => Cancelled'
     /\ (Cancelled /\ ev'.op # "start") =>
          /\ Cancelled' /\ ~isActiveRef'
          /\ starting' + intervals' = starting + intervals]_vars
\* The interval of a cancelled countdown has fired.
C34_Witness ==
  /\ ev.op = "countdown" /\ Cancelled /\ ~isActiveRef /\ intervals = 1

\* C35: in plank mode a frame without landmarks changes nothing, so a hold
\* (session active, plank selected, isTimerRunning published) lasts through
\* every step that is not a classified frame, a selection, a reset or an
\* end: each tick adds one second, and the ticker is live or is set up again
\* by the render that is due.
Holding ==
  isWorkoutActive /\ selectedExercise = "plank" /\ metrics.isTimerRunning
C35_HoldKeepsTicking ==
  [][/\ (ev'.op = "frame" /\ ev'.branch = "nopose"
         /\ selectedExercise = "plank")
          => /\ metrics' = metrics /\ Cur' = Cur
             /\ timerInterval' = timerInterval
     /\ (Holding /\ ~Classified /\ ev'.op \notin {"select", "reset", "end"})
          => /\ Holding'
             /\ metrics'.timer >= metrics.timer
             /\ ev'.op = "tick" => metrics'.timer = metrics.timer + 1
             /\ \/ timerInterval' \/ renderPending'
                \/ mirrorPending'.some /\ mirrorPending'.timerOn]_vars
\* A frame without landmarks during a hold, the ticker live and a second
\* counted.
C35_Witness ==
  /\ ev.op = "frame" /\ ev.branch = "nopose" /\ Holding /\ isActiveRef
  /\ timerInterval /\ metrics.timer = 1 /\ Cur.isTimerRunning

\* C36: after startWorkout the session becomes active, flag and mirror,
\* unless a reset or an end comes first (the clock bound leaving room for
\* the three ticks); the session is activated only by the tick that finds
\* the countdown at 1, which ends the countdown, the countdown goes down by
\* one per tick, and only startWorkout sets it, to 3.
Started ==
  /\ ev.op = "start" /\ countdown = CountdownFrom
  /\ now + CountdownFrom * TickMs <= MaxNow
C36_Activation ==
  /\ Started ~> \/ isWorkoutActive /\ isActiveRef
                \/ ev.op \in {"reset", "end"}
  /\ [][/\ (isActiveRef' /\ ~isActiveRef) \/ (isWorkoutActive' /\ ~isWorkoutActive)
           => /\ ev'.op = "countdown" /\ countdown = 1 /\ countdown' = 0
              /\ isActiveRef' /\ isWorkoutActive'
              /\ intervals' = intervals - 1
        /\ countdown' > countdown
           => ev'.op = "start" /\ countdown' = CountdownFrom
        /\ (countdown' < countdown /\ ev'.op # "reset")
           => ev'.op = "countdown" /\ countdown' = countdown - 1]_vars
\* The session activated by the third tick of the countdown, three seconds
\* after startWorkout.
C36_Witness ==
  /\ ev.op = "countdown" /\ isWorkoutActive /\ isActiveRef
  /\ countdown = 0 /\ intervals = 0 /\ now = CountdownFrom * TickMs
  /\ ~showSummary

\* C37: endWorkout leaves the published snapshot (reps, goodReps, stage,
\* feedback, timer, isTimerRunning, formFlags) and lastRepAt as they were, so
\* the summary shows the counts published last; it clears the activity flag
\* and its mirror and sets the summary flag, and leaves the selection and
\* the countdown.
C37_EndKeepsMetrics ==
  [][ev'.op = "end" =>
       /\ Pub' = Pub /\ lastRepAtRef' = lastRepAtRef
       /\ ~isWorkoutActive' /\ ~isActiveRef' /\ showSummary'
       /\ selectedExercise' = selectedExercise
       /\ selectedExerciseRef' = selectedExerciseRef
       /\ countdown' = countdown]_vars
\* The summary of a session with two repetitions, one of them good.
C37_Witness ==
  /\ ev.op = "end" /\ showSummary /\ Pub.reps = 2 /\ Pub.goodReps = 1
  /\ lastRepAtRef > 0

\* The values of ExerciseMetrics: stage is ready, up or down, the counts and
\* the timer are natural numbers, isTimerRunning is a boolean and feedback
\* is a list of strings.
Stages == {"ready", "up", "down"}
ValidMetrics(m) ==
  /\ m.stage \in Stages
  /\ m.reps \in Nat /\ m.goodReps \in Nat /\ m.timer \in Nat
  /\ m.isTimerRunning \in BOOLEAN
  /\ \A i \in DOMAIN m.feedback : m.feedback[i] \in STRING

\* C38: in every reachable state the state the engine holds, the published
\* snapshot and the snapshot a pending effect holds are valid, and so is
\* the state the selected processor computes from it for every frame the
\* pose source can deliver, whether absent, with landmarks missing or
\* complete.
C38_ValidState ==
  /\ ValidMetrics(Cur) /\ ValidMetrics(Pub)
  /\ mirrorPending.some => ValidMetrics(Rendered)
  /\ lastRepAtRef \in Nat
  /\ \A results \in Frames :
       LET id == IF Exercise = null THEN "" ELSE Exercise
           r == exerciseProcessors(id, results.poseLandmarks, Cur, now,
                                   lastRepAtRef)
       IN  ValidMetrics(r.next) /\ r.lastRepAt \in Nat
\* A second good repetition counted.
C38_Witness ==
  /\ ev.op = "frame" /\ ev.gate = "accepted" /\ isActiveRef
  /\ Cur.reps = 2 /\ Cur.goodReps = 2 /\ Cur.feedback = <<"Good form!">>
  /\ Pub = Cur
====
